---- MODULE Spec2Model ----
(***************************************************************************)
(* Model of the stage-1 search engine pipeline:                            *)
(*   control/control_panel_v2.py   ControlPanelV2 (downloader thread,      *)
(*                                 bounded queue, indexer thread, ledgers) *)
(*   Hierarchical_Indext/indexer_v2.py   tokenizer, bucket router,         *)
(*                                 posting files                           *)
(*   crawlers/crawler_v2.py        download_book_v2                        *)
(*                                                                         *)
(* Python strings are modelled as sequences of one-character strings, so   *)
(* that str(), int(), strip(), isdigit(), lower() and the tokenizer are    *)
(* computed and not assumed.                                               *)
(***************************************************************************)
EXTENDS Integers, Sequences, FiniteSets, TLC

(***************************************************************************)
(* Bounds of the model.                                                    *)
(***************************************************************************)
\* book ids are drawn from 1..MaxBookId (the code draws from 1..TOTAL_BOOKS)
MaxBookId == 2
\* largest batch_size a run is configured with
MaxBatch == 2
\* largest queue_size (Queue maxsize) a run is configured with
MaxQueueSize == 2
\* number of pipeline runs (process starts) in one behaviour
MaxRuns == 2
\* longest fixed_book_ids list a run is configured with
MaxFixedLen == 2
\* largest max_random_tries a run is configured with
MaxRandomTries == 2
\* most lines a ledger file grows to when ids are marked at will
MaxLedgerLines == 3

BookIds == 1..MaxBookId

\* the queue's end-of-stream item, join(): self.q.put(None)
None == 0

(***************************************************************************)
(* Characters and strings.                                                 *)
(***************************************************************************)
Range(s) == {s[i] : i \in DOMAIN s}

Digits == <<"0", "1", "2", "3", "4", "5", "6", "7", "8", "9">>

UpperCase == <<"A", "B", "C", "D", "E", "F", "G", "H", "I", "J", "K", "L", "M",
               "N", "O", "P", "Q", "R", "S", "T", "U", "V", "W", "X", "Y", "Z">>

LowerCase == <<"a", "b", "c", "d", "e", "f", "g", "h", "i", "j", "k", "l", "m",
               "n", "o", "p", "q", "r", "s", "t", "u", "v", "w", "x", "y", "z">>

IndexOf(c, s) == CHOOSE i \in DOMAIN s : s[i] = c

\* the letters of the model outside ASCII: U+00DF, whose upper() is "SS"
SharpS == "ß"

\* the digits, the ASCII letters and the characters \w matches, as sets
DigitSet == Range(Digits)
UpperSet == Range(UpperCase)
LowerSet == Range(LowerCase)
WordChars == DigitSet \cup UpperSet \cup LowerSet \cup {"_", SharpS}

\* the characters of the model in code point order
CodePoints == <<"\t", " ", "-">> \o Digits \o UpperCase \o <<"_">> \o LowerCase
              \o <<SharpS>>

\* s <= t of two strings: lexicographic by code point
RECURSIVE StrLeq(_, _)
StrLeq(s, t) ==
    IF Len(s) = 0 THEN TRUE
    ELSE IF Len(t) = 0 THEN FALSE
    ELSE IF s[1] = t[1] THEN StrLeq(Tail(s), Tail(t))
    ELSE IndexOf(s[1], CodePoints) < IndexOf(t[1], CodePoints)

\* str.isdigit() of one character
IsDigitChar(c) == c \in DigitSet

\* str.isspace() of one character
IsSpaceChar(c) == c \in {" ", "\t"}

\* a character matched by \w after "_" has been replaced
IsWordChar(c) ==
    c \in WordChars

\* str.lower() of one character
LowerChar(c) == IF c \in UpperSet THEN LowerCase[IndexOf(c, UpperCase)] ELSE c

\* str.upper() of one character: a string, of two characters for U+00DF
UpperChar(c) ==
    IF c \in LowerSet THEN <<UpperCase[IndexOf(c, LowerCase)]>>
    ELSE IF c = SharpS THEN <<"S", "S">>
    ELSE <<c>>

\* f"{int(book_id)}" / str(book_id): the decimal digits of a natural number
RECURSIVE str(_)
str(n) == IF n < 10 THEN <<Digits[n + 1]>>
          ELSE str(n \div 10) \o <<Digits[(n % 10) + 1]>>

\* str.isdigit(): non-empty and every character a digit
IsDigit(s) == Len(s) > 0 /\ \A i \in DOMAIN s : IsDigitChar(s[i])

\* int(s) of a string of digits
RECURSIVE int(_)
int(s) == IF Len(s) = 0 THEN 0
          ELSE 10 * int(SubSeq(s, 1, Len(s) - 1)) + (IndexOf(s[Len(s)], Digits) - 1)

\* str.strip(): drop leading and trailing whitespace
RECURSIVE LStrip(_)
LStrip(s) == IF Len(s) > 0 /\ IsSpaceChar(s[1]) THEN LStrip(Tail(s)) ELSE s

RECURSIVE RStrip(_)
RStrip(s) == IF Len(s) > 0 /\ IsSpaceChar(s[Len(s)])
             THEN RStrip(SubSeq(s, 1, Len(s) - 1)) ELSE s

Strip(s) == RStrip(LStrip(s))

(***************************************************************************)
(* Tokenizer and bucket router, indexer_v2.py.                             *)
(***************************************************************************)
\* the stopwords that can be spelled with the model's texts
STOPWORDS == {<<"i", "s">>, <<"t", "h", "e">>, <<"a">>}

\* WORD_RE.findall: the maximal runs of word characters of s from position
\* i on, left to right; cur is the run being read
RECURSIVE FindWords(_, _, _)
FindWords(s, i, cur) ==
    IF i > Len(s) THEN (IF Len(cur) > 0 THEN <<cur>> ELSE <<>>)
    ELSE IF IsWordChar(s[i]) THEN FindWords(s, i + 1, Append(cur, s[i]))
    ELSE (IF Len(cur) > 0 THEN <<cur>> ELSE <<>>) \o FindWords(s, i + 1, <<>>)

\* text.replace("_", " ") and .lower(), character by character
RECURSIVE Normalised(_, _)
Normalised(text, i) ==
    IF i > Len(text) THEN <<>>
    ELSE <<LowerChar(IF text[i] = "_" THEN " " ELSE text[i])>> \o Normalised(text, i + 1)

\* mutant: the stopword filter of line 37 is left out
tokenize_KeepsStopwords(text) == FindWords(Normalised(text, 1), 1, <<>>)

\* tokenize(text): the list of tokens (the normalised text is bound as a
\* value before the words are searched in it)
tokenize(text) ==
    CHOOSE tokens \in
        {SelectSeq(FindWords(s, 1, <<>>), LAMBDA t : t \notin STOPWORDS) :
           s \in {Normalised(text, 1)}} : TRUE

\* the bucket of digits and of everything else
DigitBucket == <<"0", "-", "9">>

\* bucket_for_term(term)
bucket_for_term(term) ==
    IF Len(term) = 0 THEN DigitBucket
    ELSE LET c == UpperChar(term[1])
         IN  IF StrLeq(<<"A">>, c) /\ StrLeq(c, <<"Z">>) THEN c
             ELSE IF IsDigitChar(term[1]) THEN DigitBucket
             ELSE DigitBucket

\* <INDEX_ROOT_V2>/<bucket>/<term>.txt
PostingsPath(term) == <<bucket_for_term(term), term>>

(***************************************************************************)
(* Documents: what the external source returns as the content section of   *)
(* a book (crawlers/crawler_v2.py writes it to <id>_content.txt).          *)
(***************************************************************************)
FetchText(book_id) ==
    IF book_id % 3 = 1 THEN <<"S", "e", "a", "_", "o", "x">>
    ELSE IF book_id % 3 = 2 THEN <<"t", "h", "e", " ", "o", "x">>
    ELSE <<>>

(***************************************************************************)
(* Progress ledger files, control_panel_v2.py.                             *)
(***************************************************************************)
DOWNLOADED_FILE == "downloaded_books.txt"
INDEXED_FILE == "indexed_books.txt"
METADATA_FILE == "metadata_stored_books.txt"

LedgerPaths == {DOWNLOADED_FILE, INDEXED_FILE, METADATA_FILE}

\* _load_ids(path) on the file system fs: the set of lines, {} if missing
_load_ids(fs, path) == IF path \in DOMAIN fs THEN Range(fs[path]) ELSE {}

\* mutant: the file is opened with mode "w"
_append_id_Overwrites(fs, path, book_id) == (path :> <<str(book_id)>>) @@ fs

\* _append_id(path, book_id): the file system after appending one line
\* (mode "a" creates the file)
_append_id(fs, path, book_id) ==
    (path :> ((IF path \in DOMAIN fs THEN fs[path] ELSE <<>>) \o <<str(book_id)>>)) @@ fs

(***************************************************************************)
(* Posting files, indexer_v2.py.  A store maps each existing posting path  *)
(* to the lines of its file.                                               *)
(***************************************************************************)
\* the permutations of a finite set, as sequences
Perms(S) == {p \in [1..Cardinality(S) -> S] : \A i, j \in DOMAIN p : i # j => p[i] # p[j]}

\* mutant: sorted(ids) without the key, in string order
SortedIds_Lexicographic(ids) ==
    CHOOSE p \in Perms(ids) : \A i, j \in DOMAIN p : i < j => StrLeq(p[i], p[j])

\* sorted(ids, key=lambda s: int(s)) of a set of strings of digits
SortedIds(ids) ==
    CHOOSE p \in Perms(ids) : \A i, j \in DOMAIN p : i < j => int(p[i]) <= int(p[j])

\* mutant: the existing file is not read
_append_book_to_term_file_Overwrites(st, term, book_id, readOk) ==
    (PostingsPath(term) :> <<str(book_id)>>) @@ st

\* mutant: the id is appended to the lines of the file, without the set
_append_book_to_term_file_Appends(st, term, book_id, readOk) ==
    (PostingsPath(term) :>
        ((IF PostingsPath(term) \in DOMAIN st /\ readOk THEN st[PostingsPath(term)] ELSE <<>>)
         \o <<str(book_id)>>)) @@ st

\* _append_book_to_term_file(term, book_id) on store st; readOk is FALSE when
\* reading the existing file raises (the except branch: ids stays empty)
_append_book_to_term_file(st, term, book_id, readOk) ==
    LET out_file == PostingsPath(term)
        content == IF out_file \in DOMAIN st /\ readOk THEN st[out_file] ELSE <<>>
        ids == {s \in {Strip(line) : line \in Range(content)} : IsDigit(s)}
               \cup {str(book_id)}
    IN  (out_file :> SortedIds(ids)) @@ st

\* the loop of lines 166-167: the updates of the terms in the sequence
\* order, one after the other (each intermediate store is bound as a value)
RECURSIVE AppendTerms(_, _, _, _)
AppendTerms(st, order, book_id, readFail) ==
    IF Len(order) = 0 THEN st
    ELSE CHOOSE result \in
            {AppendTerms(next, Tail(order), book_id, readFail) :
               next \in {_append_book_to_term_file(st, order[1], book_id,
                                                   order[1] \notin readFail)}} : TRUE

\* some enumeration of a finite set
SetToSeq(S) == CHOOSE p \in Perms(S) : TRUE

\* _safe_write_lines failing on out_file: the file is left as it was when
\* mkdir or open raised, and is left truncated when open(path, "w") had
\* succeeded and a write raised
FailedWrite(st, term, truncated) ==
    IF truncated THEN (PostingsPath(term) :> <<>>) @@ st ELSE st

\* no term: the empty string is never a token
NoTerm == <<>>

\* the terms of the content file of a book, {} if it has none
BookTerms(lk, book_id) ==
    IF book_id \in DOMAIN lk THEN Range(tokenize(lk[book_id])) ELSE {}

\* What the file system does during one index_book_incremental call:
\*   content_ok  reading the content file succeeds (else line 158: continue)
\*   done        the terms whose posting file is rewritten, in the order
\*               in which the loop over the set all_terms reaches them
\*   fail        the term whose _safe_write_lines raises, NoTerm if none
\*   truncated   the failing write had already emptied the file
\*   read_fail   the terms whose existing posting file cannot be read
IoChoices(lk, book_id) ==
    UNION {UNION {{[content_ok |-> content_ok, done |-> SetToSeq(done), fail |-> fail,
                    truncated |-> truncated, read_fail |-> read_fail]
                   : fail \in (IF done = all_terms THEN {NoTerm} ELSE all_terms \ done),
                     truncated \in (IF done = all_terms THEN {FALSE} ELSE BOOLEAN),
                     read_fail \in SUBSET done}
                  : done \in SUBSET all_terms}
           : <<content_ok, all_terms>> \in
               {<<TRUE, BookTerms(lk, book_id)>>, <<FALSE, {}>>}}

\* lines 153-160: what the call finds of the content of the book: no file
\* (any_found stays False), a file whose read raises, or the text
ContentFound(lk, book_id, io) ==
    IF book_id \notin DOMAIN lk THEN "missing"
    ELSE IF io.content_ok THEN "read" ELSE "unreadable"

\* index_book_incremental(book_id) on the data lake lk and store st, with
\* the file system behaving as io: the exception raised, the store left and
\* the posting files written.  A content file that exists but cannot be
\* read is skipped (any_found stays True and all_terms stays empty).
index_book_incremental(lk, st, book_id, io) ==
    IF book_id \notin DOMAIN lk
    THEN [exc |-> "FileNotFoundError", st |-> st, written |-> {}]
    ELSE IF io.fail = NoTerm
    THEN [exc |-> "none",
          st |-> AppendTerms(st, io.done, book_id, io.read_fail),
          written |-> {PostingsPath(t) : t \in Range(io.done)}]
    ELSE [exc |-> "OSError",
          st |-> FailedWrite(AppendTerms(st, io.done, book_id, io.read_fail),
                             io.fail, io.truncated),
          written |-> {PostingsPath(t) :
                         t \in Range(io.done) \cup (IF io.truncated THEN {io.fail} ELSE {})}]

(***************************************************************************)
(* Candidate selection, ControlPanelV2._select_next_ids.                   *)
(***************************************************************************)
\* the fixed_book_ids branch: fixed list rest, picked so far, seen so far
RECURSIVE FixedPick(_, _, _, _, _)
FixedPick(rest, picked, seen, dl, batch_size) ==
    IF Len(rest) = 0 THEN picked
    ELSE LET cand == rest[1]
         IN  IF str(cand) \in dl \/ cand \in seen
             THEN FixedPick(Tail(rest), picked, seen, dl, batch_size)
             ELSE IF Len(picked) + 1 >= batch_size
                  THEN Append(picked, cand)
                  ELSE FixedPick(Tail(rest), Append(picked, cand), seen \cup {cand},
                                 dl, batch_size)

\* the random branch: the sets the while loop can end with, each with the
\* number of draws made
RECURSIVE RandomPick(_, _, _, _, _)
RandomPick(picked, tries, dl, batch_size, max_random_tries) ==
    IF ~(Cardinality(picked) < batch_size /\ tries < max_random_tries)
    THEN {[picked |-> picked, tries |-> tries]}
    ELSE UNION {RandomPick(IF str(cand) \in dl \/ cand \in picked
                           THEN picked ELSE picked \cup {cand},
                           tries + 1, dl, batch_size, max_random_tries)
                : cand \in BookIds}

\* the runs of _select_next_ids(): the list returned (list(picked) of a set
\* is in no guaranteed order) and the number of random draws made
SelectRuns(c, dl) ==
    IF c.fixed_book_ids # <<>>
    THEN {[result |-> FixedPick(c.fixed_book_ids, <<>>, {}, dl, c.batch_size), draws |-> 0]}
    ELSE UNION {{[result |-> p, draws |-> r.tries] : p \in Perms(r.picked)} :
                  r \in RandomPick({}, 0, dl, c.batch_size, c.max_random_tries)}

\* _select_next_ids(): the lists it can return
_select_next_ids(c, dl) == {r.result : r \in SelectRuns(c, dl)}

(***************************************************************************)
(* State of the pipeline, control_panel_v2.py.                             *)
(***************************************************************************)
VARIABLES
    run,              \* number of the current process start
    cfg,              \* constructor arguments of ControlPanelV2
    fs,               \* the ledger files under control/
    lake,             \* data lake: book id -> text of <id>_content.txt
    store,            \* posting files: path -> lines
    downloaded_ids,   \* self.downloaded_ids
    indexed_ids,      \* self.indexed_ids
    metadata_ids,     \* self.metadata_ids
    q,                \* self.q
    stop,             \* self._stop
    mainPc,           \* position of the caller of start()/join()
    prodPc,           \* position of the Downloader thread
    consPc,           \* position of the Indexer thread
    targets,          \* _run_producer: targets
    ti,               \* _run_producer: index in targets of book_id
    item,             \* _run_consumer: item
    already_metadata, \* _run_consumer: already_metadata
    enqueued,         \* history: book ids put on the queue in this run
    dequeued,         \* history: book ids taken from the queue in this run
    calls,            \* history: index_book_incremental calls of this run: the id,
                      \* the exception, whether the id was in INDEXED_FILE, what
                      \* the call found of the content, whether it left the store
    writers,          \* history: <<thread, path>> of every ledger and posting file write
    ledgerAtStart,    \* history: the ledger files as the run found them
    cache,            \* search_v2: the lru_cache of _read_postings_file_cached
    found,            \* the last search_postings call: query, path, result
    lastOp,           \* history: the last operation on the index store or cache
    built,            \* history: how the store came to its contents
    readAtMiss,       \* history: what each cached path's file held when it was read
    writing,          \* the _safe_write_lines call in progress: its open file
    sel               \* history: the last _select_next_ids call made on its own

vars == <<run, cfg, fs, lake, store, downloaded_ids, indexed_ids, metadata_ids,
          q, stop, mainPc, prodPc, consPc, targets, ti, item, already_metadata,
          enqueued, dequeued, calls, writers, ledgerAtStart,
          cache, found, lastOp, built, readAtMiss, writing, sel>>

\* the search side and the histories of the index store
ix == <<cache, found, lastOp, built, readAtMiss, writing, sel>>

disk == <<fs, lake, store>>
hist == <<enqueued, dequeued, calls, writers, ledgerAtStart>>

\* the pipeline object and its ledger files
ctl == <<run, cfg, fs, downloaded_ids, indexed_ids, metadata_ids, q, stop, mainPc,
         prodPc, consPc, targets, ti, item, already_metadata, hist>>

\* no search_postings call yet
NoSearch == [query |-> <<>>, path |-> <<>>, result |-> <<>>, hit |-> FALSE]

\* no operation on the index store yet
NoOp == [op |-> "none", id |-> None, clean |-> FALSE, exc |-> "none",
         faults |-> FALSE, again |-> FALSE]

\* no selection made yet
NoSelection == [done |-> FALSE, result |-> <<>>, draws |-> 0]

\* no posting file is open for writing
NoWrite == [path |-> <<>>, lines |-> <<>>, before |-> <<>>, flushed |-> 0]

\* a process that has searched nothing: the lru_cache is empty
ColdSearch ==
    /\ cache = <<>>
    /\ found = NoSearch
    /\ lastOp = NoOp
    /\ readAtMiss = <<>>

\* the ids a ledger's lines name
IdsOf(lines) == {b \in BookIds : str(b) \in lines}

\* the fixed_book_ids lists of the model (<<>> selects random sampling)
FixedLists == UNION {[1..n -> BookIds] : n \in 0..MaxFixedLen}

Configs == [batch_size : 1..MaxBatch,
            queue_size : 0..MaxQueueSize,
            max_random_tries : {MaxRandomTries},
            fixed_book_ids : FixedLists]

\* the store a full index of the books of ids leaves
RECURSIVE IndexedStore(_)
IndexedStore(ids) ==
    IF ids = {} THEN <<>>
    ELSE LET b == CHOOSE x \in ids : TRUE
         IN  AppendTerms(IndexedStore(ids \ {b}),
                         SetToSeq(Range(tokenize(FetchText(b)))), b, {})

RECURSIVE AppendAll(_, _, _)
AppendAll(f, path, ids) ==
    IF ids = {} THEN f
    ELSE LET b == CHOOSE x \in ids : \A y \in ids : x <= y
         IN  AppendAll(_append_id(f, path, b), path, ids \ {b})

\* ControlPanelV2.__init__ on the disk state: ledgers are loaded, the queue
\* is empty, no thread runs
Construct ==
    /\ downloaded_ids' = _load_ids(fs', DOWNLOADED_FILE)
    /\ indexed_ids' = _load_ids(fs', INDEXED_FILE)
    /\ metadata_ids' = _load_ids(fs', METADATA_FILE)
    /\ q' = <<>>
    /\ stop' = FALSE
    /\ mainPc' = "created"
    /\ prodPc' = "idle"
    /\ consPc' = "idle"
    /\ targets' = <<>>
    /\ ti' = 1
    /\ item' = None
    /\ already_metadata' = FALSE
    /\ enqueued' = <<>>
    /\ dequeued' = <<>>
    /\ calls' = <<>>
    /\ writers' = [ledger |-> {}, store |-> {}]
    /\ ledgerAtStart' = fs'

\* The disk before the first run: nothing, or book 1 indexed by an earlier
\* run, with its downloaded and metadata ledger entries present or removed.
Init ==
    /\ run = 1
    /\ cfg \in Configs
    /\ \E idx \in {{}, {1}} : \E dl \in {{}, idx} : \E md \in {{}, idx} :
         /\ fs = AppendAll(AppendAll(AppendAll(<<>>, DOWNLOADED_FILE, dl),
                                     INDEXED_FILE, idx), METADATA_FILE, md)
         /\ lake = IF idx = {} THEN <<>> ELSE (1 :> FetchText(1))
         /\ store = IndexedStore(idx)
    /\ downloaded_ids = _load_ids(fs, DOWNLOADED_FILE)
    /\ indexed_ids = _load_ids(fs, INDEXED_FILE)
    /\ metadata_ids = _load_ids(fs, METADATA_FILE)
    /\ q = <<>>
    /\ stop = FALSE
    /\ mainPc = "created"
    /\ prodPc = "idle"
    /\ consPc = "idle"
    /\ targets = <<>>
    /\ ti = 1
    /\ item = None
    /\ already_metadata = FALSE
    /\ enqueued = <<>>
    /\ dequeued = <<>>
    /\ calls = <<>>
    /\ writers = [ledger |-> {}, store |-> {}]
    /\ ledgerAtStart = fs
    /\ ColdSearch
    /\ built = [from_empty |-> FALSE, docs |-> {}]
    /\ writing = NoWrite
    /\ sel = NoSelection

(***************************************************************************)
(* The caller: start(), join(), stop().                                    *)
(***************************************************************************)
\* start(): both threads are started
Start ==
    /\ mainPc = "created"
    /\ mainPc' = "join_producer"
    /\ prodPc' = "select"
    /\ consPc' = "loop"
    /\ UNCHANGED <<run, cfg, disk, downloaded_ids, indexed_ids, metadata_ids, q,
                   stop, targets, ti, item, already_metadata, hist>>
    /\ UNCHANGED ix

\* mutant: join() does not wait for the Downloader
ProducerEnded_NotAwaited == TRUE

\* Thread.join() of the Downloader: the thread has ended (returned or raised)
ProducerEnded == prodPc \in {"done", "dead"}

\* Queue.put blocks while maxsize > 0 and qsize() >= maxsize (a Queue with
\* maxsize <= 0 is unbounded)
QueueFull == cfg.queue_size > 0 /\ Len(q) >= cfg.queue_size

\* join(), line 78: self._producer.join()
JoinProducer ==
    /\ mainPc = "join_producer"
    /\ ProducerEnded
    /\ mainPc' = "put_sentinel"
    /\ UNCHANGED <<run, cfg, disk, downloaded_ids, indexed_ids, metadata_ids, q,
                   stop, prodPc, consPc, targets, ti, item, already_metadata, hist>>
    /\ UNCHANGED ix

\* join(), line 80: self.q.put(None) blocks while the queue is full
PutSentinel ==
    /\ mainPc = "put_sentinel"
    /\ ~QueueFull
    /\ q' = Append(q, None)
    /\ mainPc' = "join_consumer"
    /\ UNCHANGED <<run, cfg, disk, downloaded_ids, indexed_ids, metadata_ids,
                   stop, prodPc, consPc, targets, ti, item, already_metadata, hist>>
    /\ UNCHANGED ix

\* join(), line 81: self._consumer.join() returns when the thread has ended
JoinConsumer ==
    /\ mainPc = "join_consumer"
    /\ consPc = "done"
    /\ mainPc' = "joined"
    /\ UNCHANGED <<run, cfg, disk, downloaded_ids, indexed_ids, metadata_ids, q,
                   stop, prodPc, consPc, targets, ti, item, already_metadata, hist>>
    /\ UNCHANGED ix

\* stop(): sets the event; callable at any time of a run
Stop ==
    /\ mainPc # "joined"
    /\ ~stop
    /\ stop' = TRUE
    /\ UNCHANGED <<run, cfg, disk, downloaded_ids, indexed_ids, metadata_ids, q,
                   mainPc, prodPc, consPc, targets, ti, item, already_metadata, hist>>
    /\ UNCHANGED ix

\* The process ends (join() returned, or it is killed at any point) and the
\* pipeline is constructed again on the files the run left.
Restart ==
    /\ run < MaxRuns
    /\ run' = run + 1
    /\ UNCHANGED <<cfg, disk>>
    /\ Construct
    /\ UNCHANGED ix

(***************************************************************************)
(* The Downloader thread, ControlPanelV2._run_producer.                    *)
(***************************************************************************)
\* line 120: targets = list(self._select_next_ids())
ProducerSelect ==
    /\ prodPc = "select"
    /\ targets' \in _select_next_ids(cfg, downloaded_ids)
    /\ ti' = 1
    /\ prodPc' = "loop"
    /\ UNCHANGED <<run, cfg, disk, downloaded_ids, indexed_ids, metadata_ids, q,
                   stop, mainPc, consPc, item, already_metadata, hist>>
    /\ UNCHANGED ix

\* lines 126-128: next book_id of the for loop, stop check
ProducerLoop ==
    /\ prodPc = "loop"
    /\ prodPc' = IF ti > Len(targets) \/ stop THEN "done" ELSE "download"
    /\ UNCHANGED <<run, cfg, disk, downloaded_ids, indexed_ids, metadata_ids, q,
                   stop, mainPc, consPc, targets, ti, item, already_metadata, hist>>
    /\ UNCHANGED ix

\* download_book_v2(book_id): it returns True with the content file written
\* ("ok"), returns False with nothing written ("failed"), or raises while
\* writing the three files, before or after the content file was written
DownloadOutcomes == {"ok", "failed", "raised", "raised_stored"}

\* mutant: the result of the download is not looked at
AfterDownload_IgnoresResult(outcome) ==
    IF outcome \in {"ok", "failed"} THEN "append" ELSE "dead"

\* lines 132-139: where the producer goes on the result of the download
AfterDownload(outcome) ==
    CASE outcome = "ok" -> "append"
      [] outcome = "failed" -> "loop"
      [] OTHER -> "dead"

\* line 131: ok = download_book_v2(book_id); an exception ends the thread
ProducerDownload ==
    /\ prodPc = "download"
    /\ \E outcome \in DownloadOutcomes :
         /\ lake' = IF outcome \in {"ok", "raised_stored"}
                    THEN (targets[ti] :> FetchText(targets[ti])) @@ lake
                    ELSE lake
         /\ prodPc' = AfterDownload(outcome)
         /\ ti' = IF AfterDownload(outcome) = "loop" THEN ti + 1 ELSE ti
    /\ UNCHANGED <<run, cfg, fs, store, downloaded_ids, indexed_ids, metadata_ids, q,
                   stop, mainPc, consPc, targets, item, already_metadata, hist>>
    /\ UNCHANGED ix

\* mutant: the Downloader queues the book without the ledger line
ProducerAppend_SkipsLedger ==
    /\ prodPc = "append"
    /\ prodPc' = "put"
    /\ UNCHANGED <<run, cfg, disk, downloaded_ids, indexed_ids, metadata_ids, q,
                   stop, mainPc, consPc, targets, ti, item, already_metadata, hist>>
    /\ UNCHANGED ix

\* mutant: the Downloader also marks the book indexed
ProducerAppend_MarksIndexed ==
    /\ prodPc = "append"
    /\ fs' = _append_id(_append_id(fs, DOWNLOADED_FILE, targets[ti]),
                        INDEXED_FILE, targets[ti])
    /\ downloaded_ids' = downloaded_ids \cup {str(targets[ti])}
    /\ writers' = [writers EXCEPT !.ledger = @ \cup {<<"Downloader", DOWNLOADED_FILE>>,
                                                      <<"Downloader", INDEXED_FILE>>}]
    /\ prodPc' = "put"
    /\ UNCHANGED <<run, cfg, lake, store, indexed_ids, metadata_ids, q,
                   stop, mainPc, consPc, targets, ti, item, already_metadata,
                   enqueued, dequeued, calls, ledgerAtStart>>
    /\ UNCHANGED ix

\* lines 134-135: _append_id(DOWNLOADED_FILE, book_id); downloaded_ids.add
ProducerAppend ==
    /\ prodPc = "append"
    /\ fs' = _append_id(fs, DOWNLOADED_FILE, targets[ti])
    /\ downloaded_ids' = downloaded_ids \cup {str(targets[ti])}
    /\ writers' = [writers EXCEPT !.ledger = @ \cup {<<"Downloader", DOWNLOADED_FILE>>}]
    /\ prodPc' = "put"
    /\ UNCHANGED <<run, cfg, lake, store, indexed_ids, metadata_ids, q,
                   stop, mainPc, consPc, targets, ti, item, already_metadata,
                   enqueued, dequeued, calls, ledgerAtStart>>
    /\ UNCHANGED ix

\* line 137: self.q.put(book_id) blocks while the queue is full; then the
\* sleep of line 142 and the next iteration
ProducerPut ==
    /\ prodPc = "put"
    /\ ~QueueFull
    /\ q' = Append(q, targets[ti])
    /\ enqueued' = Append(enqueued, targets[ti])
    /\ ti' = ti + 1
    /\ prodPc' = "loop"
    /\ UNCHANGED <<run, cfg, disk, downloaded_ids, indexed_ids, metadata_ids,
                   stop, mainPc, consPc, targets, item, already_metadata,
                   dequeued, calls, writers, ledgerAtStart>>
    /\ UNCHANGED ix

(***************************************************************************)
(* The Indexer thread, ControlPanelV2._run_consumer.                       *)
(***************************************************************************)
\* line 149: while not self._stop.is_set()
ConsumerLoop ==
    /\ consPc = "loop"
    /\ consPc' = IF stop THEN "done" ELSE "get"
    /\ UNCHANGED <<run, cfg, disk, downloaded_ids, indexed_ids, metadata_ids, q,
                   stop, mainPc, prodPc, targets, ti, item, already_metadata, hist>>
    /\ UNCHANGED ix

\* lines 150-153: self.q.get(timeout=1.0) on an empty queue raises Empty
ConsumerTimeout ==
    /\ consPc = "get"
    /\ q = <<>>
    /\ consPc' = "loop"
    /\ UNCHANGED <<run, cfg, disk, downloaded_ids, indexed_ids, metadata_ids, q,
                   stop, mainPc, prodPc, targets, ti, item, already_metadata, hist>>
    /\ UNCHANGED ix

\* mutant: the end-of-stream item is not recognised
IsSentinel_Never(x) == FALSE

\* line 155: if item is None
IsSentinel(x) == x = None

\* mutant: a queue that hands out its newest item
QueueGet_Lifo(queue) ==
    [item |-> queue[Len(queue)], rest |-> SubSeq(queue, 1, Len(queue) - 1)]

\* Queue.get: the item that is taken, and the queue that is left
QueueGet(queue) == [item |-> Head(queue), rest |-> Tail(queue)]

\* mutant: the indexed ledger is not consulted
AlreadyIndexed_Forgotten(book_id_str) == FALSE

\* line 162: already_indexed = book_id_str in self.indexed_ids
AlreadyIndexed(book_id_str) == book_id_str \in indexed_ids

\* mutant: the loop goes on after the end-of-stream item
OnSentinel_Continue == "loop"

\* line 156: break
OnSentinel == "done"

\* lines 151-168: an item is taken; None ends the loop; an id that is both
\* indexed and metadata-stored is skipped; otherwise indexing is entered
\* when the id is not indexed and the metadata part when it is
ConsumerGet ==
    /\ consPc = "get"
    /\ q # <<>>
    /\ q' = QueueGet(q).rest
    /\ item' = QueueGet(q).item
    /\ IF IsSentinel(item')
       THEN /\ consPc' = OnSentinel
            /\ UNCHANGED <<already_metadata, dequeued>>
       ELSE LET book_id_str == str(item')
                already_indexed == AlreadyIndexed(book_id_str)
            IN  /\ already_metadata' = (book_id_str \in metadata_ids)
                /\ dequeued' = Append(dequeued, item')
                /\ consPc' = IF already_indexed /\ already_metadata' THEN "loop"
                             ELSE IF ~already_indexed THEN "index"
                             ELSE "metadata"
    /\ UNCHANGED <<run, cfg, disk, downloaded_ids, indexed_ids, metadata_ids,
                   stop, mainPc, prodPc, targets, ti, enqueued, calls, writers, ledgerAtStart>>
    /\ UNCHANGED ix

\* mutant: the ledger lines are reached whether or not the call raised
AfterIndex_MarksAnyway(exc) == "mark"

\* lines 174-179: after the call the ledger lines (175-176) follow; an
\* exception skips them and the metadata part is next
AfterIndex(exc) == IF exc = "none" THEN "mark" ELSE "metadata"

\* line 174: index_book_incremental(book_id); an exception is logged by the
\* except branch of line 178 and the ledger lines are not reached
ConsumerIndex ==
    /\ consPc = "index"
    /\ \E io \in IoChoices(lake, item) :
         LET outcome == index_book_incremental(lake, store, item, io)
         IN
         /\ store' = outcome.st
         /\ calls' = Append(calls, [id |-> item, exc |-> outcome.exc,
                                    marked |-> str(item) \in _load_ids(fs, INDEXED_FILE),
                                    content |-> ContentFound(lake, item, io),
                                    kept |-> outcome.st = store])
         /\ writers' = [writers EXCEPT
                         !.store = @ \cup {<<"Indexer", path>> : path \in outcome.written}]
         /\ consPc' = AfterIndex(outcome.exc)
    /\ UNCHANGED <<run, cfg, fs, lake, downloaded_ids, indexed_ids, metadata_ids, q,
                   stop, mainPc, prodPc, targets, ti, item, already_metadata,
                   enqueued, dequeued, ledgerAtStart>>
    /\ UNCHANGED ix

\* lines 175-176: _append_id(INDEXED_FILE, book_id); indexed_ids.add
ConsumerMark ==
    /\ consPc = "mark"
    /\ fs' = _append_id(fs, INDEXED_FILE, item)
    /\ indexed_ids' = indexed_ids \cup {str(item)}
    /\ writers' = [writers EXCEPT !.ledger = @ \cup {<<"Indexer", INDEXED_FILE>>}]
    /\ consPc' = "metadata"
    /\ UNCHANGED <<run, cfg, lake, store, downloaded_ids, metadata_ids, q,
                   stop, mainPc, prodPc, targets, ti, item, already_metadata,
                   enqueued, dequeued, calls, ledgerAtStart>>
    /\ UNCHANGED ix

\* lines 182-228: the metadata part; when the header is parsed and stored
\* the id is appended to METADATA_FILE; then task_done()
ConsumerMetadata ==
    /\ consPc = "metadata"
    /\ \E stored \in (IF already_metadata THEN {FALSE} ELSE BOOLEAN) :
         /\ fs' = IF stored THEN _append_id(fs, METADATA_FILE, item) ELSE fs
         /\ metadata_ids' = IF stored THEN metadata_ids \cup {str(item)} ELSE metadata_ids
         /\ writers' = IF stored
                       THEN [writers EXCEPT !.ledger = @ \cup {<<"Indexer", METADATA_FILE>>}]
                       ELSE writers
    /\ consPc' = "loop"
    /\ UNCHANGED <<run, cfg, lake, store, downloaded_ids, indexed_ids, q,
                   stop, mainPc, prodPc, targets, ti, item, already_metadata,
                   enqueued, dequeued, calls, ledgerAtStart>>
    /\ UNCHANGED ix

(***************************************************************************)
(* Specification of the pipeline.                                          *)
(***************************************************************************)
Producer == ProducerSelect \/ ProducerLoop \/ ProducerDownload \/ ProducerAppend
            \/ ProducerPut

Consumer == ConsumerLoop \/ ConsumerTimeout \/ ConsumerGet \/ ConsumerIndex
            \/ ConsumerMark \/ ConsumerMetadata

Caller == Start \/ JoinProducer \/ PutSentinel \/ JoinConsumer

Next == Producer \/ Consumer \/ Caller \/ Stop \/ Restart

Spec == Init /\ [][Next]_vars

\* One run of the pipeline, with the scheduling of the three threads: a
\* thread that can take a step eventually takes one.  stop() is the
\* environment's.
RunNext == Producer \/ Consumer \/ Caller \/ Stop

FairSpec == Init /\ [][RunNext]_vars
            /\ WF_vars(Producer) /\ WF_vars(Consumer) /\ WF_vars(Caller)

\* One run in which stop() is never called, with the same scheduling.
NoStopNext == Producer \/ Consumer \/ Caller

NoStopSpec == Init /\ [][NoStopNext]_vars
              /\ WF_vars(Producer) /\ WF_vars(Consumer) /\ WF_vars(Caller)

(***************************************************************************)
(* The index store used directly: build_hierarchical_index,                *)
(* index_book_incremental and search_postings on a data lake that holds    *)
(* some documents.                                                         *)
(***************************************************************************)
\* the documents of the data lake
DocIds == {9, 10}

TextA == <<"S", "e", "a", "_", "o", "x">>
TextB == <<"t", "h", "e", " ", "O", "X">>
Texts == {TextA, TextB}

\* the data lakes: some documents, each with a text
Lakes == UNION {[D -> Texts] : D \in SUBSET DocIds}

\* an index root left by an earlier corpus: postings of a document that is
\* no longer in the data lake
PriorStore ==
    (PostingsPath(<<"o", "x">>) :> <<str(7)>>) @@ (PostingsPath(<<"z", "z">>) :> <<str(7)>>)

\* the terms of all content files of the data lake
CorpusTerms(lk) == UNION {BookTerms(lk, d) : d \in DOMAIN lk}

\* lines 82-93: postings[term], the ids of the files that contain the term
Postings(lk, term) == {str(d) : d \in {b \in DOMAIN lk : term \in BookTerms(lk, b)}}

\* mutant: posting lists are written in string order
SortedForRebuild_Lexicographic(ids) ==
    CHOOSE p \in Perms(ids) : \A i, j \in DOMAIN p : i < j => StrLeq(p[i], p[j])

\* line 99: sorted(ids, key=lambda s: int(s))
SortedForRebuild(ids) == SortedIds(ids)

\* mutant: the index root is never emptied
Cleaned_Never(st, clean) == st

\* lines 70-77: with clean every file of the index root is unlinked
Cleaned(st, clean) == IF clean THEN <<>> ELSE st

\* build_hierarchical_index(clean) on the data lake lk: the store it leaves.
\* With clean the index root is emptied first (lines 70-77); then one
\* posting file per term of the corpus is written (lines 95-100).
build_hierarchical_index(lk, st, clean) ==
    LET kept == Cleaned(st, clean)
        paths == {PostingsPath(t) : t \in CorpusTerms(lk)}
    IN  IF paths \cup DOMAIN kept = {} THEN <<>>
        ELSE [p \in paths \cup DOMAIN kept |->
                IF p \in paths THEN SortedForRebuild(Postings(lk, p[2])) ELSE kept[p]]

\* _normalize_term(term): the first token of the query, "" if none
_normalize_term(term) ==
    LET toks == tokenize(term)
    IN  IF Len(toks) > 0 THEN toks[1] ELSE <<>>

\* mutant: the read path looks in one bucket for every term
_postings_path_for_term_OneBucket(term_norm) == <<DigitBucket, term_norm>>

\* _postings_path_for_term(term_norm)
_postings_path_for_term(term_norm) == <<bucket_for_term(term_norm), term_norm>>

\* the body of _read_postings_file_cached: the stripped non-empty lines of
\* the file, [] when it does not exist or reading it raises
_read_postings_file(st, path, readOk) ==
    IF path \notin DOMAIN st \/ ~readOk THEN <<>>
    ELSE SelectSeq([i \in DOMAIN st[path] |-> Strip(st[path][i])], LAMBDA l : l # <<>>)

\* search_postings(query) with an empty lru_cache
Lookup(st, query) ==
    LET term_norm == _normalize_term(query)
    IN  IF term_norm = <<>> THEN <<>>
        ELSE _read_postings_file(st, _postings_path_for_term(term_norm), TRUE)

\* mutant: clearing leaves the entries in place
cache_clear_Keeps(c) == c

\* _read_postings_file_cached.cache_clear()
cache_clear(c) == <<>>

\* the queries of the model
Queries == {<<"O", "X">>, <<"t", "h", "e">>, <<SharpS>>}

\* build_hierarchical_index(clean=...)
RebuildAll ==
    /\ \E clean \in BOOLEAN :
         /\ store' = build_hierarchical_index(lake, store, clean)
         /\ lastOp' = [op |-> "rebuild", id |-> None, clean |-> clean, exc |-> "none",
                       faults |-> FALSE, again |-> lastOp.op = "rebuild"]
    /\ built' = [from_empty |-> FALSE, docs |-> {}]
    /\ UNCHANGED <<ctl, lake, cache, found, readAtMiss, writing, sel>>

\* index_book_incremental(id) called directly
UpdateDocument ==
    /\ \E id \in DocIds : \E io \in IoChoices(lake, id) :
         \E outcome \in {index_book_incremental(lake, store, id, io)} :
         LET faults == /\ id \in DOMAIN lake
                       /\ (~io.content_ok \/ io.fail # NoTerm \/ io.read_fail # {})
         IN
         /\ store' = outcome.st
         /\ lastOp' = [op |-> "update", id |-> id, clean |-> FALSE, exc |-> outcome.exc,
                       faults |-> faults,
                       again |-> /\ lastOp.op = "update" /\ lastOp.id = id
                                 /\ lastOp.exc = "none" /\ ~lastOp.faults]
         /\ built' = IF built.from_empty /\ ~faults /\ outcome.exc = "none"
                      THEN [built EXCEPT !.docs = @ \cup {id}]
                      ELSE IF outcome.st = store THEN built
                      ELSE [from_empty |-> FALSE, docs |-> {}]
    /\ UNCHANGED <<ctl, lake, cache, found, readAtMiss, writing, sel>>

\* search_postings(query): the empty normalised term returns [] at once;
\* otherwise the lru_cache answers for a path it holds, and the file is
\* read and the result cached for a path it does not hold
Search ==
    /\ \E query \in Queries : \E readOk \in BOOLEAN :
         LET term_norm == _normalize_term(query)
             path == _postings_path_for_term(term_norm)
             hit == path \in DOMAIN cache
             result == IF hit THEN cache[path] ELSE _read_postings_file(store, path, readOk)
         IN  IF term_norm = <<>>
             THEN /\ found' = [query |-> query, path |-> <<>>, result |-> <<>>, hit |-> FALSE]
                  /\ UNCHANGED <<cache, readAtMiss>>
             ELSE /\ found' = [query |-> query, path |-> path, result |-> result, hit |-> hit]
                  /\ cache' = IF hit THEN cache ELSE (path :> result) @@ cache
                  /\ readAtMiss' =
                       IF hit THEN readAtMiss
                       ELSE (path :> [lines |-> _read_postings_file(store, path, TRUE),
                                      ok |-> readOk \/ path \notin DOMAIN store]) @@ readAtMiss
    /\ lastOp' = [op |-> "search", id |-> None, clean |-> FALSE, exc |-> "none",
                  faults |-> FALSE, again |-> lastOp.op = "clear"]
    /\ UNCHANGED <<ctl, lake, store, built, writing, sel>>

\* clear_postings_cache()
Clear ==
    /\ cache' = cache_clear(cache)
    /\ readAtMiss' = <<>>
    /\ lastOp' = [op |-> "clear", id |-> None, clean |-> FALSE, exc |-> "none",
                  faults |-> FALSE, again |-> FALSE]
    /\ UNCHANGED <<ctl, lake, store, found, built, writing, sel>>

\* The index root is empty or holds the postings of an earlier corpus; no
\* pipeline runs.
IndexInit ==
    /\ lake \in Lakes
    /\ store \in {<<>>, PriorStore}
    /\ built = [from_empty |-> store = <<>>, docs |-> {}]
    /\ ColdSearch
    /\ writing = NoWrite
    /\ sel = NoSelection
    /\ run = 1
    /\ cfg = [batch_size |-> 1, queue_size |-> 1, max_random_tries |-> MaxRandomTries,
              fixed_book_ids |-> <<>>]
    /\ fs = <<>>
    /\ downloaded_ids = {} /\ indexed_ids = {} /\ metadata_ids = {}
    /\ q = <<>> /\ stop = FALSE
    /\ mainPc = "created" /\ prodPc = "idle" /\ consPc = "idle"
    /\ targets = <<>> /\ ti = 1 /\ item = None /\ already_metadata = FALSE
    /\ enqueued = <<>> /\ dequeued = <<>> /\ calls = <<>>
    /\ writers = [ledger |-> {}, store |-> {}]
    /\ ledgerAtStart = <<>>

\* The writers of the index store on any data lake.
IndexNext == RebuildAll \/ UpdateDocument

IndexSpec == IndexInit /\ [][IndexNext]_vars

\* A searching process beside the writers: both documents are in the data
\* lake and the index root starts empty.
SearchInit ==
    /\ IndexInit
    /\ lake = (9 :> TextA) @@ (10 :> TextB)
    /\ store = <<>>

SearchNext == RebuildAll \/ UpdateDocument \/ Search \/ Clear

SearchSpec == SearchInit /\ [][SearchNext]_vars

(***************************************************************************)
(* One posting file write step by step, beside a searching process.        *)
(* _append_book_to_term_file computes the new lines and calls              *)
(* _safe_write_lines, which opens the file with mode "w" (the file is      *)
(* empty from then on), writes line after line and closes it.  The search  *)
(* side reads the file without any lock.                                   *)
(***************************************************************************)
\* the first n lines of a file being written
Flushed(lines, n) == SubSeq(lines, 1, n)

\* lines 126-140 and 50-51: the new lines are computed from the file as it
\* is, then open(path, "w") truncates the file
WriteOpen ==
    /\ writing = NoWrite
    /\ \E id \in DOMAIN lake : \E term \in BookTerms(lake, id) :
         LET path == PostingsPath(term)
         IN  /\ writing' = [path |-> path,
                            lines |-> _append_book_to_term_file(store, term, id, TRUE)[path],
                            before |-> _read_postings_file(store, path, TRUE),
                            flushed |-> 0]
             /\ store' = (path :> <<>>) @@ store
    /\ lastOp' = [op |-> "write", id |-> None, clean |-> FALSE, exc |-> "none",
                  faults |-> FALSE, again |-> FALSE]
    /\ UNCHANGED <<ctl, lake, cache, found, built, readAtMiss, sel>>

\* lines 52-53: written lines reach the file, when the buffer of the file
\* object fills or at the latest when the file is closed
WriteFlush ==
    /\ writing # NoWrite
    /\ writing.flushed < Len(writing.lines)
    /\ \E n \in (writing.flushed + 1)..Len(writing.lines) :
         /\ writing' = [writing EXCEPT !.flushed = n]
         /\ store' = (writing.path :> Flushed(writing.lines, n)) @@ store
    /\ lastOp' = [op |-> "write", id |-> None, clean |-> FALSE, exc |-> "none",
                  faults |-> FALSE, again |-> FALSE]
    /\ UNCHANGED <<ctl, lake, cache, found, built, readAtMiss, sel>>

\* the end of the with block of line 51: the file is closed, complete
WriteClose ==
    /\ writing # NoWrite
    /\ writing.flushed = Len(writing.lines)
    /\ writing' = NoWrite
    /\ lastOp' = [op |-> "write", id |-> None, clean |-> FALSE, exc |-> "none",
                  faults |-> FALSE, again |-> FALSE]
    /\ UNCHANGED <<ctl, lake, store, cache, found, built, readAtMiss, sel>>

ConcurrentNext == WriteOpen \/ WriteFlush \/ WriteClose \/ Search \/ Clear

\* The Indexer thread writing posting files while another thread searches.
ConcurrentSpec == SearchInit /\ [][ConcurrentNext]_vars

(***************************************************************************)
(* Files with lines that are no decimal ids: a posting file and a ledger   *)
(* file edited by hand or damaged.  The index store is used directly and   *)
(* the ledgers are loaded as ControlPanelV2.__init__ loads them.           *)
(***************************************************************************)
\* a posting file of "ox" with a valid id, a line of text and a blank line
DirtyStore == PostingsPath(<<"o", "x">>) :> <<str(7), <<"x">>, <<>>, <<" ", "8">> >>

\* ledger files with a valid id and a line of text
DirtyLedgers ==
    (DOWNLOADED_FILE :> <<str(1), <<"x">> >>) @@ (INDEXED_FILE :> <<str(1), <<"x">> >>)

\* lines 59-61: the three ledgers are loaded
LoadLedgers ==
    /\ downloaded_ids' = _load_ids(fs, DOWNLOADED_FILE)
    /\ indexed_ids' = _load_ids(fs, INDEXED_FILE)
    /\ metadata_ids' = _load_ids(fs, METADATA_FILE)
    /\ UNCHANGED <<run, cfg, disk, q, stop, mainPc, prodPc, consPc, targets, ti, item,
                   already_metadata, hist>>
    /\ UNCHANGED ix

DirtyInit ==
    /\ lake = (9 :> TextA)
    /\ store = DirtyStore
    /\ built = [from_empty |-> FALSE, docs |-> {}]
    /\ ColdSearch
    /\ writing = NoWrite
    /\ sel = NoSelection
    /\ run = 1
    /\ cfg = [batch_size |-> 1, queue_size |-> 1, max_random_tries |-> MaxRandomTries,
              fixed_book_ids |-> <<>>]
    /\ fs = DirtyLedgers
    /\ downloaded_ids = {} /\ indexed_ids = {} /\ metadata_ids = {}
    /\ q = <<>> /\ stop = FALSE
    /\ mainPc = "created" /\ prodPc = "idle" /\ consPc = "idle"
    /\ targets = <<>> /\ ti = 1 /\ item = None /\ already_metadata = FALSE
    /\ enqueued = <<>> /\ dequeued = <<>> /\ calls = <<>>
    /\ writers = [ledger |-> {}, store |-> {}]
    /\ ledgerAtStart = DirtyLedgers

DirtyNext == UpdateDocument \/ Search \/ Clear \/ LoadLedgers

DirtySpec == DirtyInit /\ [][DirtyNext]_vars

(***************************************************************************)
(* _select_next_ids on its own: a ControlPanelV2 constructed with any      *)
(* arguments on any acquired ledger, whose selection is called.            *)
(***************************************************************************)
\* the constructor arguments; batch_size and max_random_tries are passed
\* through int() and unchecked, so 0 is among them
SelectConfigs == [batch_size : 0..MaxBatch,
                  queue_size : {1},
                  max_random_tries : 0..MaxRandomTries,
                  fixed_book_ids : FixedLists]

SelectInit ==
    /\ cfg \in SelectConfigs
    /\ \E dl \in SUBSET BookIds : fs = AppendAll(<<>>, DOWNLOADED_FILE, dl)
    /\ downloaded_ids = _load_ids(fs, DOWNLOADED_FILE)
    /\ indexed_ids = {} /\ metadata_ids = {}
    /\ lake = <<>> /\ store = <<>>
    /\ built = [from_empty |-> FALSE, docs |-> {}]
    /\ ColdSearch
    /\ writing = NoWrite
    /\ sel = NoSelection
    /\ run = 1
    /\ q = <<>> /\ stop = FALSE
    /\ mainPc = "created" /\ prodPc = "idle" /\ consPc = "idle"
    /\ targets = <<>> /\ ti = 1 /\ item = None /\ already_metadata = FALSE
    /\ enqueued = <<>> /\ dequeued = <<>> /\ calls = <<>>
    /\ writers = [ledger |-> {}, store |-> {}]
    /\ ledgerAtStart = fs

\* self._select_next_ids()
Select ==
    /\ \E r \in SelectRuns(cfg, downloaded_ids) :
         sel' = [done |-> TRUE, result |-> r.result, draws |-> r.draws]
    /\ UNCHANGED <<ctl, lake, store, cache, found, lastOp, built, readAtMiss, writing>>

SelectSpec == SelectInit /\ [][Select]_vars

(***************************************************************************)
(* The ledger helpers on their own: any id is marked in any ledger, any    *)
(* number of times, and the ledgers are loaded again.                      *)
(***************************************************************************)
\* the lines of a ledger file
LedgerLines(f, path) == IF path \in DOMAIN f THEN f[path] ELSE <<>>

\* _append_id(path, book_id) followed by the add to the set in memory, as
\* in lines 134-135, 175-176 and 198-199
MarkDone ==
    /\ \E path \in LedgerPaths : \E book_id \in BookIds :
         /\ Len(LedgerLines(fs, path)) < MaxLedgerLines
         /\ fs' = _append_id(fs, path, book_id)
         /\ downloaded_ids' = IF path = DOWNLOADED_FILE
                               THEN downloaded_ids \cup {str(book_id)} ELSE downloaded_ids
         /\ indexed_ids' = IF path = INDEXED_FILE
                            THEN indexed_ids \cup {str(book_id)} ELSE indexed_ids
         /\ metadata_ids' = IF path = METADATA_FILE
                             THEN metadata_ids \cup {str(book_id)} ELSE metadata_ids
    /\ UNCHANGED <<run, cfg, lake, store, q, stop, mainPc, prodPc, consPc, targets, ti,
                   item, already_metadata, hist>>
    /\ UNCHANGED ix

\* no ledger file, or ledger files an earlier run left
LedgerInit ==
    /\ \E idx \in {{}, {1}} : \E dl \in {{}, idx} :
         fs = AppendAll(AppendAll(<<>>, DOWNLOADED_FILE, dl), INDEXED_FILE, idx)
    /\ downloaded_ids = _load_ids(fs, DOWNLOADED_FILE)
    /\ indexed_ids = _load_ids(fs, INDEXED_FILE)
    /\ metadata_ids = _load_ids(fs, METADATA_FILE)
    /\ cfg = [batch_size |-> 1, queue_size |-> 1, max_random_tries |-> MaxRandomTries,
              fixed_book_ids |-> <<>>]
    /\ lake = <<>> /\ store = <<>>
    /\ built = [from_empty |-> FALSE, docs |-> {}]
    /\ ColdSearch
    /\ writing = NoWrite
    /\ sel = NoSelection
    /\ run = 1
    /\ q = <<>> /\ stop = FALSE
    /\ mainPc = "created" /\ prodPc = "idle" /\ consPc = "idle"
    /\ targets = <<>> /\ ti = 1 /\ item = None /\ already_metadata = FALSE
    /\ enqueued = <<>> /\ dequeued = <<>> /\ calls = <<>>
    /\ writers = [ledger |-> {}, store |-> {}]
    /\ ledgerAtStart = fs

LedgerNext == MarkDone \/ LoadLedgers

LedgerSpec == LedgerInit /\ [][LedgerNext]_vars

(***************************************************************************)
(* Properties.                                                             *)
(***************************************************************************)
\* the calls of this run for book b
CallsOf(b) == {k \in DOMAIN calls : calls[k].id = b}

\* the book ids of the calls of this run, in call order
CallIds == [k \in DOMAIN calls |-> calls[k].id]

\* the ids in the acquired ledger and not in the indexed ledger at run start
Pending == IdsOf(_load_ids(ledgerAtStart, DOWNLOADED_FILE))
           \ IdsOf(_load_ids(ledgerAtStart, INDEXED_FILE))

\* the ids this run appended to the acquired ledger
NewlyAcquired == IdsOf(_load_ids(fs, DOWNLOADED_FILE))
                 \ IdsOf(_load_ids(ledgerAtStart, DOWNLOADED_FILE))

\* the lines of a ledger file
Lines(f, path) == IF path \in DOMAIN f THEN f[path] ELSE <<>>

\* C1: when join() has returned in a run without stop(), every enqueued id
\* was dequeued and is in the indexed ledger or had its indexing call fail
\* (logged by the except branch), and the queue holds no document id.
C1_JoinLeavesNoWork ==
    (mainPc = "joined" /\ ~stop) =>
        /\ \A i \in DOMAIN q : q[i] \notin BookIds
        /\ \A i \in DOMAIN enqueued :
              /\ enqueued[i] \in Range(dequeued)
              /\ \/ str(enqueued[i]) \in _load_ids(fs, INDEXED_FILE)
                 \/ \E k \in CallsOf(enqueued[i]) : calls[k].exc # "none"

C1_Witness ==
    /\ mainPc = "joined" /\ ~stop
    /\ Len(enqueued) = 2
    /\ \E k \in DOMAIN calls : calls[k].exc # "none"
    /\ \E k \in DOMAIN calls : calls[k].exc = "none"
                               /\ str(calls[k].id) \in _load_ids(fs, INDEXED_FILE)

\* C2 (as claimed): an id that is acquired and not indexed when a run starts
\* is passed to index_book_incremental by that run, when the run completes
\* without stop() and the batch has room for it.
C2_PendingIsRetried ==
    (run > 1 /\ mainPc = "joined" /\ ~stop /\ prodPc = "done"
       /\ Cardinality(Pending) <= cfg.batch_size)
    => \A b \in Pending : CallsOf(b) # {}

\* C3: index_book_incremental is never called for an id that is in the
\* indexed ledger, and at most once per id in a run.
C3_IndexedNeverReindexed ==
    /\ \A k \in DOMAIN calls : ~calls[k].marked
    /\ \A j, k \in DOMAIN calls : j # k => calls[j].id # calls[k].id

C3_Witness ==
    /\ dequeued = <<1, 2>>
    /\ CallIds = <<2>>
    /\ consPc = "loop"
    /\ str(1) \in _load_ids(fs, INDEXED_FILE)
    /\ str(1) \notin _load_ids(fs, METADATA_FILE)

\* C4 (as claimed): a step that appends an id to the indexed ledger follows
\* a call for that id that returned without error, and at that moment every
\* term of the document's content has the id in its posting file.
C4_MarkedOnlyWhenPosted ==
    [][\A b \in BookIds :
         (str(b) \in _load_ids(fs', INDEXED_FILE) /\ str(b) \notin _load_ids(fs, INDEXED_FILE))
         => /\ Len(calls) > 0
            /\ calls[Len(calls)].id = b
            /\ calls[Len(calls)].exc = "none"
            /\ b \in DOMAIN lake
            /\ \A t \in Range(tokenize(lake[b])) :
                  /\ PostingsPath(t) \in DOMAIN store
                  /\ str(b) \in Range(store[PostingsPath(t)])]_vars

\* the clean shutdown: both threads ended, the sentinel was the last item
\* dequeued, join() returned
CleanShutdown ==
    /\ mainPc = "joined"
    /\ ProducerEnded
    /\ consPc = "done"
    /\ IsSentinel(item)
    /\ q = <<>>

\* C5: in a run without stop(), under fair scheduling, the clean shutdown
\* is reached: the threads and the caller do not deadlock.
C5_RunTerminates == <>CleanShutdown

C5_Witness ==
    /\ CleanShutdown /\ ~stop
    /\ cfg.queue_size = 1
    /\ Len(enqueued) = 2

\* C6 (as claimed): after stop(), under fair scheduling, both threads end
\* and join() returns.
C6_StopLeadsToJoin == stop ~> (mainPc = "joined")

\* C7 (as claimed): the queue never holds more than queue_size items, and a
\* put of a book id completes only from a queue that holds fewer.
C7_QueueBounded ==
    /\ [](Len(q) <= cfg.queue_size)
    /\ [][Len(enqueued') > Len(enqueued) => Len(q) < cfg.queue_size]_vars


\* C8: ids are dequeued in the order they were enqueued, and the calls of
\* index_book_incremental are, in order, the dequeued ids that were not in
\* the indexed ledger.
C8_Fifo ==
    LET handled == IF consPc = "index"
                   THEN SubSeq(dequeued, 1, Len(dequeued) - 1) ELSE dequeued
    IN  /\ Len(dequeued) <= Len(enqueued)
        /\ \A i \in DOMAIN dequeued : dequeued[i] = enqueued[i]
        /\ CallIds = SelectSeq(handled,
                        LAMBDA b : str(b) \notin _load_ids(ledgerAtStart, INDEXED_FILE))

C8_Witness ==
    /\ enqueued = <<2, 1>>
    /\ CallIds = <<2, 1>>

\* C9: an id this run appended to the acquired ledger has its content
\* stored; an id in the queue or about to be put is in the acquired ledger;
\* the download and the indexing of the same id are never both in progress.
C9_AcquiredBeforeQueued ==
    /\ NewlyAcquired \subseteq DOMAIN lake
    /\ \A i \in DOMAIN q : q[i] \in BookIds => str(q[i]) \in _load_ids(fs, DOWNLOADED_FILE)
    /\ prodPc = "put" => str(targets[ti]) \in _load_ids(fs, DOWNLOADED_FILE)
    /\ consPc = "index" =>
          /\ str(item) \in _load_ids(fs, DOWNLOADED_FILE)
          /\ ~(prodPc = "download" /\ targets[ti] = item)

C9_Witness ==
    /\ consPc = "index"
    /\ prodPc = "download"
    /\ item # targets[ti]
    /\ NewlyAcquired = {item}

\* C10: a step that changes the acquired ledger is a step of the Downloader
\* alone, a step that changes the indexed ledger or a posting file is a step
\* of the Indexer alone, and no file is written by two threads.
C10_SingleWriter ==
    /\ [][/\ Lines(fs', DOWNLOADED_FILE) # Lines(fs, DOWNLOADED_FILE)
             => (prodPc' # prodPc /\ consPc' = consPc /\ mainPc' = mainPc)
          /\ (Lines(fs', INDEXED_FILE) # Lines(fs, INDEXED_FILE) \/ store' # store)
             => (consPc' # consPc /\ prodPc' = prodPc /\ mainPc' = mainPc)]_vars
    /\ [](/\ \A w \in writers.ledger :
               /\ w[2] = DOWNLOADED_FILE => w[1] = "Downloader"
               /\ w[2] = INDEXED_FILE => w[1] = "Indexer"
          /\ \A w \in writers.store : w[1] = "Indexer"
          /\ \A v, w \in writers.ledger : v[2] = w[2] => v[1] = w[1])

C10_Witness ==
    /\ <<"Downloader", DOWNLOADED_FILE>> \in writers.ledger
    /\ <<"Indexer", INDEXED_FILE>> \in writers.ledger
    /\ writers.store # {}
    /\ prodPc = "download"
    /\ consPc = "metadata"

\* the number of sentinels in the queue
SentinelsQueued == Cardinality({i \in DOMAIN q : IsSentinel(q[i])})

\* join() has passed its put of line 80
SentinelPut == mainPc \in {"join_consumer", "joined"}

\* C11: the sentinel is put by join() once the Downloader has ended, exactly
\* once per run and behind every book id; the Indexer that takes it leaves
\* its loop and neither takes nor indexes anything afterwards.
C11_OneSentinelLast ==
    /\ [](/\ SentinelsQueued <= 1
          /\ (SentinelsQueued = 1 => (IsSentinel(q[Len(q)]) /\ ProducerEnded))
          /\ (SentinelPut => ProducerEnded)
          /\ SentinelPut <=> (SentinelsQueued = 1 \/ (SentinelsQueued = 0 /\ q = <<>>
                                                       /\ consPc = "done" /\ IsSentinel(item)
                                                       /\ mainPc \in {"join_consumer", "joined"})))
    /\ [][/\ ((SentinelsQueued = 1 /\ SentinelsQueued' = 0 /\ run' = run)
               => (consPc' = "done" /\ IsSentinel(item') /\ q' = <<>>))
           /\ ((consPc = "done" /\ run' = run)
               => (consPc' = "done" /\ dequeued' = dequeued /\ calls' = calls
                   /\ Len(q') >= Len(q) /\ store' = store))]_vars

C11_Witness ==
    /\ SentinelPut /\ SentinelsQueued = 0 /\ consPc = "done"
    /\ Len(dequeued) = 2 /\ ~stop

\* the calls of this run that raised
FailedCalls == {i \in DOMAIN calls : calls[i].exc # "none"}

\* C12: an index_book_incremental call that raises does not put the id in
\* the indexed ledger and does not end the Indexer: the step after it is the
\* metadata part, and when join() returns without stop() every book id
\* enqueued after the failed one was dequeued and handled too.
C12_IndexFailureNotFatal ==
    /\ [](\A i \in FailedCalls :
            /\ str(calls[i].id) \notin indexed_ids
            /\ str(calls[i].id) \notin _load_ids(fs, INDEXED_FILE)
            /\ ((mainPc = "joined" /\ ~stop) => (dequeued = enqueued /\ q = <<>>)))
    /\ [][(Len(calls') > Len(calls) /\ calls'[Len(calls')].exc # "none")
           => (consPc' = "metadata" /\ fs' = fs /\ indexed_ids' = indexed_ids)]_vars

C12_Witness ==
    /\ mainPc = "joined" /\ ~stop
    /\ Len(calls) = 2
    /\ calls[1].exc # "none" /\ calls[2].exc = "none"
    /\ str(calls[2].id) \in indexed_ids

UpdatedOk(o) == o.op = "update" /\ o.exc = "none" /\ ~o.faults

\* C14: an index_book_incremental call that repeats the preceding call
\* for the same id, on the same content, leaves every posting file and so
\* every cold lookup as the first call left it.
C14_UpdateIdempotent ==
    [][(UpdatedOk(lastOp') /\ lastOp'.again)
       => (/\ store' = store
           /\ \A query \in Queries : Lookup(store', query) = Lookup(store, query))]_vars

C14_Witness ==
    /\ UpdatedOk(lastOp) /\ lastOp.again /\ lastOp.id = 10
    /\ PostingsPath(<<"o", "x">>) \in DOMAIN store
    /\ store[PostingsPath(<<"o", "x">>)] = <<str(9), str(10)>>

\* C15: every posting file holds decimal ids, each once, in ascending
\* numeric order, after any sequence of rebuilds and updates.
C15_PostingsSortedUnique ==
    \A p \in DOMAIN store :
        /\ \A i \in DOMAIN store[p] : IsDigit(store[p][i])
        /\ \A i, j \in DOMAIN store[p] : i < j => int(store[p][i]) < int(store[p][j])

C15_Witness ==
    /\ lastOp.op = "update" /\ lastOp.id = 9
    /\ PostingsPath(<<"o", "x">>) \in DOMAIN store
    /\ store[PostingsPath(<<"o", "x">>)] = <<str(7), str(9), str(10)>>

\* C16: a store built from the empty index root by one
\* index_book_incremental call per document of the data lake is the store
\* that build_hierarchical_index builds from the same data lake, and every
\* lookup answers the same on both.
C16_IncrementalEqualsRebuild ==
    (built.from_empty /\ built.docs = DOMAIN lake)
    => (/\ store = build_hierarchical_index(lake, <<>>, TRUE)
        /\ \A query \in Queries :
              Lookup(store, query) = Lookup(build_hierarchical_index(lake, <<>>, TRUE), query))

C16_Witness ==
    /\ built.from_empty /\ built.docs = {9, 10} /\ DOMAIN lake = {9, 10}
    /\ lake[9] = TextB /\ lake[10] = TextA
    /\ Lookup(store, <<"O", "X">>) = <<str(9), str(10)>>
    /\ Lookup(store, <<"t", "h", "e">>) = <<>>

\* the store holds, for each term of the corpus and for no other term, the
\* ids of the documents that contain it
ExactPostings ==
    /\ DOMAIN store = {PostingsPath(t) : t \in CorpusTerms(lake)}
    /\ \A t \in CorpusTerms(lake) :
         /\ {int(store[PostingsPath(t)][i]) : i \in DOMAIN store[PostingsPath(t)]}
              = {d \in DOMAIN lake : t \in BookTerms(lake, d)}
         /\ Len(store[PostingsPath(t)]) = Cardinality({d \in DOMAIN lake : t \in BookTerms(lake, d)})

\* C17 (as claimed): every build_hierarchical_index call leaves exactly the
\* postings of the corpus, whatever the index root held before.
C17_RebuildDiscardsPrior ==
    [][lastOp'.op = "rebuild" => ExactPostings']_vars

\* C17 (amended): a build_hierarchical_index call with clean=True (the
\* default) leaves exactly the postings of the corpus, whatever the index
\* root held before, and a second such call changes nothing.
C17_CleanRebuildExact ==
    [][(lastOp'.op = "rebuild" /\ lastOp'.clean)
       => (/\ ExactPostings'
           /\ ((lastOp.op = "rebuild" /\ lastOp.clean) => store' = store))]_vars

C17_Witness ==
    /\ lastOp.op = "rebuild" /\ lastOp.clean /\ lastOp.again
    /\ DOMAIN lake = {9, 10}
    /\ PostingsPath(<<"z", "z">>) \notin DOMAIN store
    /\ store[PostingsPath(<<"o", "x">>)] = <<str(9), str(10)>>

\* C18: tokenize replaces "_" by a space, lowercases, and yields no empty
\* token and no stopword ("New_York is BIG" gives new, york, big); no
\* posting file is stored for the empty term or for a stopword.
C18_NoEmptyNoStopword ==
    /\ tokenize(<<"N", "e", "w", "_", "Y", "o", "r", "k", " ", "i", "s", " ", "B", "I", "G">>)
         = << <<"n", "e", "w">>, <<"y", "o", "r", "k">>, <<"b", "i", "g">> >>
    /\ \A d \in DOMAIN lake : \A t \in BookTerms(lake, d) :
         /\ t # <<>> /\ t \notin STOPWORDS
         /\ \A i \in DOMAIN t : t[i] # "_" /\ t[i] \notin UpperSet
    /\ \A p \in DOMAIN store : p[2] # <<>> /\ p[2] \notin STOPWORDS

C18_Witness ==
    /\ UpdatedOk(lastOp) /\ lastOp.id \in DOMAIN lake /\ lake[lastOp.id] = TextB
    /\ DOMAIN store = {PostingsPath(<<"o", "x">>)}

\* the 27 bucket keys
BucketKeys == {<<c>> : c \in UpperSet} \cup {DigitBucket}

\* C19 (as claimed): every term is routed to one of the 27 bucket keys A..Z
\* and 0-9.
C19_BucketIsOneOf27 ==
    /\ found.path # <<>> => found.path[1] \in BucketKeys
    /\ \A p \in DOMAIN store : p[1] \in BucketKeys

\* C20: a search answers from the cache: its result is what the file held
\* when the path was last read since the last clear (nothing for a missing
\* file), whatever was written since; writes leave the cache alone; the
\* first search after a clear reads the file as it is now.
C20_CacheAsOfLastMiss ==
    /\ [](\A p \in DOMAIN cache :
            /\ p \in DOMAIN readAtMiss
            /\ (readAtMiss[p].ok => cache[p] = readAtMiss[p].lines))
    /\ [][/\ ((lastOp'.op = "search" /\ found'.path # <<>>)
              => (/\ found'.result = cache'[found'.path]
                  /\ (found'.hit => (cache' = cache /\ found'.result = cache[found'.path]))
                  /\ ((lastOp.op = "clear" /\ readAtMiss'[found'.path].ok)
                       => found'.result = Lookup(store, found'.query))))
           /\ (lastOp'.op \in {"update", "rebuild"} => cache' = cache)]_vars

C20_Witness ==
    /\ lastOp.op = "search" /\ found.hit
    /\ found.result = <<str(9)>>
    /\ Lookup(store, found.query) = <<str(9), str(10)>>

\* C21 (as claimed): a search that reads a posting file while an update is
\* rewriting it returns the complete list of before the write or the
\* complete list of after it.
C21_ReaderSeesWholeList ==
    [][(/\ lastOp'.op = "search" /\ ~found'.hit
        /\ writing # NoWrite /\ found'.path = writing.path
        /\ readAtMiss'[found'.path].ok)
       => found'.result \in {writing.before, writing.lines}]_vars

\* C22 (as claimed): an index_book_incremental call that gets no content
\* for its id raises FileNotFoundError and leaves every posting file as it
\* was, and the pipeline does not go on to append the id to INDEXED_FILE.
C22_NoContentRaises ==
    /\ \A k \in DOMAIN calls :
         calls[k].content # "read"
         => (calls[k].exc = "FileNotFoundError" /\ calls[k].kept)
    /\ consPc = "mark" => calls[Len(calls)].content = "read"

\* the posting file of term holds book_id
HasPosting(st, term, book_id) ==
    /\ PostingsPath(term) \in DOMAIN st
    /\ str(book_id) \in Range(st[PostingsPath(term)])

\* the terms of the book whose posting file does not hold its id
TermsLeftOut(lk, st, book_id) ==
    {t \in BookTerms(lk, book_id) : ~HasPosting(st, t, book_id)}

\* C23 (as claimed): when a posting file write fails during an
\* index_book_incremental call of the pipeline, only the term of that file
\* is left out: every other term of the document holds the id after the
\* call, and the Indexer goes on to the next steps.
C23_OnlyFailedTermAbandoned ==
    [][(Len(calls') = Len(calls) + 1 /\ calls'[Len(calls')].exc = "OSError")
       => (/\ Cardinality(TermsLeftOut(lake, store', calls'[Len(calls')].id)) <= 1
           /\ consPc' = "metadata")]_vars

\* C24 (as claimed): lines that are no decimal id are skipped: an update
\* that meets no I/O error leaves the id in the file of every term of the
\* document, among decimal ids only; a search returns decimal ids only; the
\* loaded ledgers hold decimal ids only.
C24_UnparseableSkipped ==
    /\ UpdatedOk(lastOp)
         => (/\ TermsLeftOut(lake, store, lastOp.id) = {}
             /\ \A t \in BookTerms(lake, lastOp.id) :
                   \A i \in DOMAIN store[PostingsPath(t)] :
                      IsDigit(store[PostingsPath(t)][i]))
    /\ \A i \in DOMAIN found.result : IsDigit(found.result[i])
    /\ \A l \in downloaded_ids \cup indexed_ids \cup metadata_ids : IsDigit(l)

\* the positions of the fixed list that hold an id not yet acquired, for
\* the first time in the list
NewPositions(list, dl) ==
    {i \in DOMAIN list : str(list[i]) \notin dl /\ \A j \in 1..(i - 1) : list[j] # list[i]}

\* the first n not yet acquired ids of the fixed list, in list order
FirstNew(list, dl, n) ==
    LET pos == CHOOSE p \in Perms(NewPositions(list, dl)) :
                   \A i, j \in DOMAIN p : i < j => p[i] < p[j]
        len == IF n < Len(pos) THEN n ELSE Len(pos)
    IN  [k \in 1..len |-> list[pos[k]]]

\* C25 (as claimed): a selection returns at most batch_size ids, all
\* different and none in the acquired ledger set; from a fixed list it
\* returns the first such ids in list order; the random loop makes at most
\* max_random_tries draws.
C25_SelectionBounded ==
    sel.done =>
        /\ Len(sel.result) <= cfg.batch_size
        /\ \A i, j \in DOMAIN sel.result : i # j => sel.result[i] # sel.result[j]
        /\ \A i \in DOMAIN sel.result : str(sel.result[i]) \notin downloaded_ids
        /\ cfg.fixed_book_ids # <<>>
             => sel.result = FirstNew(cfg.fixed_book_ids, downloaded_ids, cfg.batch_size)
        /\ sel.draws <= cfg.max_random_tries

\* C26: loading a missing ledger file gives the empty set; the sets in
\* memory are what a load of the files gives; every change of a ledger
\* file appends one id as its last line and leaves the other lines and the
\* other files alone, so that a load gives the set of before plus that id,
\* the same set when the id was already in it.
C26_LedgerAppendOnly ==
    /\ [](/\ \A path \in LedgerPaths : path \notin DOMAIN fs => _load_ids(fs, path) = {}
          /\ downloaded_ids = _load_ids(fs, DOWNLOADED_FILE)
          /\ indexed_ids = _load_ids(fs, INDEXED_FILE)
          /\ metadata_ids = _load_ids(fs, METADATA_FILE))
    /\ [][fs' # fs =>
           \E path \in LedgerPaths : \E book_id \in BookIds :
              /\ LedgerLines(fs', path) = LedgerLines(fs, path) \o <<str(book_id)>>
              /\ _load_ids(fs', path) = _load_ids(fs, path) \cup {str(book_id)}
              /\ (str(book_id) \in _load_ids(fs, path)
                    => _load_ids(fs', path) = _load_ids(fs, path))
              /\ \A other \in LedgerPaths \ {path} :
                    /\ LedgerLines(fs', other) = LedgerLines(fs, other)
                    /\ (other \in DOMAIN fs') = (other \in DOMAIN fs)]_vars

C26_Witness ==
    /\ LedgerLines(fs, INDEXED_FILE) = <<str(1), str(2), str(1)>>
    /\ indexed_ids = {str(1), str(2)}
    /\ METADATA_FILE \notin DOMAIN fs /\ metadata_ids = {}

\* queries for a term of the corpus, in other case, for a stopword, for a
\* term of no document, and the empty query
LookupQueries == Queries \cup {<<>>, <<"s", "e", "a">>, <<"o", "x">>, <<"z", "z">>}

\* the terms of the documents indexed into a store that started empty
IndexedTerms == UNION {BookTerms(lake, d) : d \in built.docs}

\* C27: after an index_book_incremental call that returned and met no I/O
\* error, a cold search for any term of the document returns its id; in a
\* store built from the empty index root, a cold search for a term of no
\* indexed document, for a stopword or for the empty query returns [].
C27_WriteReadSamePath ==
    /\ UpdatedOk(lastOp)
         => \A t \in BookTerms(lake, lastOp.id) : str(lastOp.id) \in Range(Lookup(store, t))
    /\ built.from_empty
         => \A query \in LookupQueries :
               _normalize_term(query) \notin IndexedTerms => Lookup(store, query) = <<>>

C27_Witness ==
    /\ UpdatedOk(lastOp) /\ lastOp.id = 9 /\ 9 \in DOMAIN lake /\ lake[9] = TextA
    /\ built.from_empty /\ built.docs = {9}
    /\ Lookup(store, <<"s", "e", "a">>) = <<str(9)>>
    /\ Lookup(store, <<"O", "X">>) = <<str(9)>>
    /\ Lookup(store, <<"t", "h", "e">>) = <<>>
    /\ Lookup(store, <<"z", "z">>) = <<>>

\* the decimal ids a posting file holds
ValidIds(st, path) ==
    IF path \in DOMAIN st
    THEN {l \in {Strip(st[path][i]) : i \in DOMAIN st[path]} : IsDigit(l)}
    ELSE {}

\* C28 (as claimed): an index_book_incremental call that returns only adds
\* postings: every decimal id a posting file held before the call is in
\* the file after it, whether or not the call could read the file.
C28_UpdateOnlyAdds ==
    [][(lastOp'.op = "update" /\ lastOp'.exc = "none")
       => \A path \in DOMAIN store : ValidIds(store, path) \subseteq ValidIds(store', path)]_vars

\* the run found every id of the indexed ledger in the acquired ledger
StartedConsistent ==
    _load_ids(ledgerAtStart, INDEXED_FILE) \subseteq _load_ids(ledgerAtStart, DOWNLOADED_FILE)

\* C29: in a run that started with every id of the indexed ledger in the
\* acquired ledger, every id of the indexed ledger is in the acquired
\* ledger in every state.
C29_IndexedWithinAcquired ==
    StartedConsistent
    => _load_ids(fs, INDEXED_FILE) \subseteq _load_ids(fs, DOWNLOADED_FILE)

C29_Witness ==
    /\ StartedConsistent
    /\ _load_ids(ledgerAtStart, INDEXED_FILE) = {str(1)}
    /\ _load_ids(fs, INDEXED_FILE) = {str(1), str(2)}

\* the file system of a call in which every read and write succeeds
FaultFree(lk, book_id) ==
    [content_ok |-> TRUE, done |-> SetToSeq(BookTerms(lk, book_id)), fail |-> NoTerm,
     truncated |-> FALSE, read_fail |-> {}]

\* the store after index_book_incremental(book_id) without I/O error
Updated(lk, st, book_id) == index_book_incremental(lk, st, book_id, FaultFree(lk, book_id)).st

\* C30: on every store, index_book_incremental calls for two different
\* documents leave the same posting files in either order.
C30_UpdatesCommute ==
    \A a, b \in DOMAIN lake :
        a # b => Updated(lake, Updated(lake, store, a), b)
                 = Updated(lake, Updated(lake, store, b), a)

C30_Witness ==
    /\ UpdatedOk(lastOp) /\ lastOp.id = 9 /\ ~lastOp.again
    /\ built.from_empty /\ built.docs = {9, 10} /\ DOMAIN lake = {9, 10}
    /\ store = Updated(lake, Updated(lake, <<>>, 9), 10)
    /\ store[PostingsPath(<<"o", "x">>)] = <<str(9), str(10)>>
====
